---- MODULE Spec2Model ----
(***************************************************************************)
(* Model of the React component App of frontend/src/App.js: the five       *)
(* useState cells, the two asynchronous handlers handleParse and           *)
(* handleGeneratePDF with their suspension points (await fetch, await      *)
(* res.json() / res.blob()), the synchronous handler handleItemChange and  *)
(* the gating of the controls in the rendered markup.                      *)
(*                                                                         *)
(* JavaScript values are tagged records [t, v]; numbers are kept as their  *)
(* decimal text so that the number 3 and the string "3" stay different.    *)
(***************************************************************************)
EXTENDS Integers, Sequences, FiniteSets, TLC

VARIABLES prompt, docType, items, loading, error, inflight, event, edits

vars == <<prompt, docType, items, loading, error, inflight, event, edits>>

-----------------------------------------------------------------------------
(* Bounds of the exploration *)

MaxEdits == 2

-----------------------------------------------------------------------------
(* Program constants *)

DOC_TYPES == <<"Facture", "Devis", "Bon de commande", "Bon de livraison">>

DocTypeOptions_WithPlaceholder == {DOC_TYPES[k] : k \in 1..Len(DOC_TYPES)} \cup {""}

(* DOC_TYPES.map(type => <option key={type} value={type}>) *)
DocTypeOptions == {DOC_TYPES[k] : k \in 1..Len(DOC_TYPES)}

NoError == ""
ErrNoItems == "No items found."
ErrParse == "Error parsing prompt."
ErrPdf == "Error generating PDF."

-----------------------------------------------------------------------------
(* JavaScript values *)

Undefined == [t |-> "undefined", v |-> ""]
Str(s) == [t |-> "string", v |-> s]
Num(s) == [t |-> "number", v |-> s]

ItemA == [reference |-> Str(""), name |-> Str("Widget A"),
          quantity |-> Num("2"), unit_price |-> Num("10")]
ItemB == [reference |-> Undefined, name |-> Str("Widget B"),
          quantity |-> Num("5"), unit_price |-> Undefined]

(* Item lists the parsing service may answer with *)
ItemLists == {<<>>, <<ItemA>>, <<ItemA, ItemB>>}

(* Texts the user may type into the prompt textarea *)
Prompts == {"", "2x Widget A at $10"}

(* The editable columns of the table and what their inputs can deliver:   *)
(* e.target.value is always a string, for type="number" inputs too.       *)
Fields == {"reference", "name", "quantity", "unit_price"}

InputValues(field) ==
  IF field \in {"quantity", "unit_price"}
    THEN {Str("3")}
    ELSE {Str("W")}

(* Parse responses: HTTP status and body.  json is what res.json() does   *)
(* with the body: "reject" (not JSON), "null" (the JSON text null) or     *)
(* "object"; itemsKey is the value of data.items.                         *)
BadBody == [json |-> "reject", itemsKey |-> "absent", list |-> <<>>]
NullBody == [json |-> "null", itemsKey |-> "absent", list |-> <<>>]
EmptyObject == [json |-> "object", itemsKey |-> "absent", list |-> <<>>]
NullItems == [json |-> "object", itemsKey |-> "null", list |-> <<>>]
ItemsBody(L) == [json |-> "object", itemsKey |-> "array", list |-> L]

Bodies == {BadBody, NullBody, EmptyObject, NullItems} \cup {ItemsBody(L) : L \in ItemLists}

NoRes == [ok |-> FALSE, body |-> BadBody]

-----------------------------------------------------------------------------
(* Pure helpers *)

Filename_NoExtension(d) == d

(* `${docType}.pdf` *)
Filename(d) == d \o ".pdf"

Truthy_EmptyArrayFalsy(body) == body.itemsKey = "array" /\ Len(body.list) > 0

(* if (data.items): undefined and null are falsy, every array is truthy,  *)
(* the empty one included                                                 *)
Truthy(body) == body.itemsKey = "array"

(* { ...item, [field]: value } *)
Spread(item, field, value) ==
  [k \in (DOMAIN item) \cup {field} |-> IF k = field THEN value ELSE item[k]]

MapItems_NegativeFromEnd(its, idx, field, value) ==
  [i \in 1..Len(its) |->
     IF i - 1 = idx \/ (idx < 0 /\ i - 1 = Len(its) + idx)
       THEN Spread(its[i], field, value) ELSE its[i]]

MapItems_EveryRow(its, idx, field, value) ==
  [i \in 1..Len(its) |-> Spread(its[i], field, value)]

(* items.map((item, i) => i === idx ? { ...item, [field]: value } : item) *)
(* with the 0-based JavaScript index                                      *)
MapItems(its, idx, field, value) ==
  [i \in 1..Len(its) |-> IF i - 1 = idx THEN Spread(its[i], field, value) ELSE its[i]]

ParseDisabled_IgnoresPrompt == loading

(* disabled={loading || !prompt} *)
ParseDisabled == loading \/ prompt = ""

TableShown_Always == TRUE

(* {items.length > 0 && ( ... table ... )} *)
TableShown == Len(items) > 0

PdfDisabled_Never == FALSE

(* disabled={loading} *)
PdfDisabled == loading

-----------------------------------------------------------------------------
Init ==
  /\ prompt = ""
  /\ docType = DOC_TYPES[1]
  /\ items = <<>>
  /\ loading = FALSE
  /\ error = NoError
  /\ inflight = <<>>
  /\ event = [op |-> "mount"]
  /\ edits = 0

-----------------------------------------------------------------------------
(* The useState cells as one record, and the handlers as functions on it *)

State ==
  [prompt |-> prompt, docType |-> docType, items |-> items,
   loading |-> loading, error |-> error]

Commit(s) ==
  /\ prompt' = s.prompt
  /\ docType' = s.docType
  /\ items' = s.items
  /\ loading' = s.loading
  /\ error' = s.error

ParseBegin_KeepsError(s) == [s EXCEPT !.loading = TRUE, !.items = <<>>]

ParseBegin_KeepsItems(s) == [s EXCEPT !.loading = TRUE, !.error = NoError]

(* handleParse up to the first await: setLoading(true); setError('');     *)
(* setItems([])                                                            *)
ParseBegin(s) == [s EXCEPT !.loading = TRUE, !.error = NoError, !.items = <<>>]

ParseCatch_KeepsLoading(s) == [s EXCEPT !.error = ErrParse]

(* handleParse, catch block and the statement after it                    *)
ParseCatch(s) == [s EXCEPT !.error = ErrParse, !.loading = FALSE]

ParseBody_DropsItems(s, body) ==
  IF body.json # "object" THEN ParseCatch(s)
  ELSE IF Truthy(body) THEN [s EXCEPT !.loading = FALSE]
  ELSE [s EXCEPT !.error = ErrNoItems, !.loading = FALSE]

(* handleParse after await res.json(): a rejected res.json() and the      *)
(* TypeError of null.items both land in the catch block                   *)
ParseBody(s, body) ==
  IF body.json # "object" THEN ParseCatch(s)
  ELSE IF Truthy(body) THEN [s EXCEPT !.items = body.list, !.loading = FALSE]
  ELSE [s EXCEPT !.error = ErrNoItems, !.loading = FALSE]

(* handleItemChange: the functional updater applied to the latest items   *)
handleItemChange(s, idx, field, value) ==
  [s EXCEPT !.items = MapItems(s.items, idx, field, value)]

PdfBegin_KeepsError(s) == [s EXCEPT !.loading = TRUE]

(* handleGeneratePDF up to the first await: setLoading(true); setError('') *)
PdfBegin(s) == [s EXCEPT !.loading = TRUE, !.error = NoError]

Throws_Never(ok) == FALSE

(* if (!res.ok) throw new Error('PDF generation failed') *)
Throws(ok) == ~ok

PdfCatch_KeepsLoading(s) == [s EXCEPT !.error = ErrPdf]

PdfCatch_ClearsItems(s) == [s EXCEPT !.error = ErrPdf, !.loading = FALSE, !.items = <<>>]

(* handleGeneratePDF, catch block and the statement after it              *)
PdfCatch(s) == [s EXCEPT !.error = ErrPdf, !.loading = FALSE]

(* handleGeneratePDF after the download was triggered                     *)
PdfDelivered(s) == [s EXCEPT !.loading = FALSE]

JsonItem_DropsEmpty(item) ==
  [k \in {f \in DOMAIN item : item[f].t # "undefined" /\ item[f].v # ""} |-> item[k]]

(* JSON.stringify drops the properties whose value is undefined           *)
JsonItem(item) == [k \in {f \in DOMAIN item : item[f].t # "undefined"} |-> item[k]]

JsonItems(its) == [i \in 1..Len(its) |-> JsonItem(its[i])]

(* body: JSON.stringify({ prompt }) *)
ParseRequest(s) ==
  [op |-> "parse", pc |-> "fetch", body |-> [prompt |-> s.prompt], res |-> NoRes]

(* body: JSON.stringify({ items, docType }); docType is the value the     *)
(* handler's closure holds and reads again for the file name              *)
PdfRequest(s) ==
  [op |-> "pdf", pc |-> "fetch",
   body |-> [items |-> JsonItems(s.items), docType |-> s.docType],
   docType |-> s.docType, ok |-> FALSE]

(* a.download = `${docType}.pdf`; a.click() *)
Download(req) == <<Filename(req.docType)>>

Remove(seq, k) == [i \in 1..(Len(seq) - 1) |-> IF i < k THEN seq[i] ELSE seq[i + 1]]

-----------------------------------------------------------------------------
(* User events *)

(* textarea onChange *)
SetPrompt(text) ==
  /\ Commit([State EXCEPT !.prompt = text])
  /\ event' = [op |-> "setPrompt"]
  /\ UNCHANGED <<inflight, edits>>

(* select onChange *)
SetDocType(type) ==
  /\ Commit([State EXCEPT !.docType = type])
  /\ event' = [op |-> "setDocType"]
  /\ UNCHANGED <<inflight, edits>>

(* A click on the Parse button; a disabled button dispatches nothing *)
ClickParse ==
  /\ event' = [op |-> "clickParse", dispatched |-> ~ParseDisabled]
  /\ IF ParseDisabled
       THEN UNCHANGED <<prompt, docType, items, loading, error, inflight>>
       ELSE /\ Commit(ParseBegin(State))
            /\ inflight' = Append(inflight, ParseRequest(State))
  /\ UNCHANGED edits

(* A click on the Generate PDF button, which exists only with the table *)
ClickPdf ==
  /\ TableShown
  /\ event' = [op |-> "clickPdf", dispatched |-> ~PdfDisabled]
  /\ IF PdfDisabled
       THEN UNCHANGED <<prompt, docType, items, loading, error, inflight>>
       ELSE /\ Commit(PdfBegin(State))
            /\ inflight' = Append(inflight, PdfRequest(State))
  /\ UNCHANGED edits

(* onChange of one input of row idx of the rendered table *)
ItemInput(idx, field, value) ==
  /\ TableShown
  /\ idx \in 0..(Len(items) - 1)
  /\ edits < MaxEdits
  /\ Commit(handleItemChange(State, idx, field, value))
  /\ event' = [op |-> "itemChange", idx |-> idx, field |-> field, value |-> value]
  /\ edits' = edits + 1
  /\ UNCHANGED inflight

-----------------------------------------------------------------------------
(* Network completions *)

(* await fetch(...) of handleParse resolves, whatever the HTTP status *)
ParseFetchResolve(k, res) ==
  /\ k \in 1..Len(inflight)
  /\ inflight[k].op = "parse" /\ inflight[k].pc = "fetch"
  /\ inflight' = [inflight EXCEPT ![k].pc = "json", ![k].res = res]
  /\ event' = [op |-> "parseResponse"]
  /\ UNCHANGED <<prompt, docType, items, loading, error, edits>>

(* await fetch(...) of handleParse rejects *)
ParseFetchReject(k) ==
  /\ k \in 1..Len(inflight)
  /\ inflight[k].op = "parse" /\ inflight[k].pc = "fetch"
  /\ Commit(ParseCatch(State))
  /\ inflight' = Remove(inflight, k)
  /\ event' = [op |-> "parseDone", fetched |-> FALSE, res |-> NoRes]
  /\ UNCHANGED edits

(* await res.json() settles and handleParse runs to its end *)
ParseJsonSettle(k) ==
  /\ k \in 1..Len(inflight)
  /\ inflight[k].op = "parse" /\ inflight[k].pc = "json"
  /\ Commit(ParseBody(State, inflight[k].res.body))
  /\ inflight' = Remove(inflight, k)
  /\ event' = [op |-> "parseDone", fetched |-> TRUE, res |-> inflight[k].res]
  /\ UNCHANGED edits

(* await fetch(...) of handleGeneratePDF resolves; !res.ok throws at once *)
PdfFetchResolve(k, ok) ==
  /\ k \in 1..Len(inflight)
  /\ inflight[k].op = "pdf" /\ inflight[k].pc = "fetch"
  /\ IF ~Throws(ok)
       THEN /\ inflight' = [inflight EXCEPT ![k].pc = "blob", ![k].ok = ok]
            /\ event' = [op |-> "pdfResponse"]
            /\ UNCHANGED <<prompt, docType, items, loading, error>>
       ELSE /\ Commit(PdfCatch(State))
            /\ inflight' = Remove(inflight, k)
            /\ event' = [op |-> "pdfDone", fetched |-> TRUE, ok |-> FALSE,
                          blob |-> FALSE, files |-> <<>>]
  /\ UNCHANGED edits

(* await fetch(...) of handleGeneratePDF rejects *)
PdfFetchReject(k) ==
  /\ k \in 1..Len(inflight)
  /\ inflight[k].op = "pdf" /\ inflight[k].pc = "fetch"
  /\ Commit(PdfCatch(State))
  /\ inflight' = Remove(inflight, k)
  /\ event' = [op |-> "pdfDone", fetched |-> FALSE, ok |-> FALSE,
                blob |-> FALSE, files |-> <<>>]
  /\ UNCHANGED edits

PdfBlobResolve_NamesByCurrent(k) ==
  /\ k \in 1..Len(inflight)
  /\ inflight[k].op = "pdf" /\ inflight[k].pc = "blob"
  /\ Commit(PdfDelivered(State))
  /\ inflight' = Remove(inflight, k)
  /\ event' = [op |-> "pdfDone", fetched |-> TRUE, ok |-> inflight[k].ok,
                blob |-> TRUE, files |-> <<Filename(docType)>>]
  /\ UNCHANGED edits

(* await res.blob() resolves: the file is handed to the browser *)
PdfBlobResolve(k) ==
  /\ k \in 1..Len(inflight)
  /\ inflight[k].op = "pdf" /\ inflight[k].pc = "blob"
  /\ Commit(PdfDelivered(State))
  /\ inflight' = Remove(inflight, k)
  /\ event' = [op |-> "pdfDone", fetched |-> TRUE, ok |-> inflight[k].ok,
                blob |-> TRUE, files |-> Download(inflight[k])]
  /\ UNCHANGED edits

(* await res.blob() rejects *)
PdfBlobReject(k) ==
  /\ k \in 1..Len(inflight)
  /\ inflight[k].op = "pdf" /\ inflight[k].pc = "blob"
  /\ Commit(PdfCatch(State))
  /\ inflight' = Remove(inflight, k)
  /\ event' = [op |-> "pdfDone", fetched |-> TRUE, ok |-> inflight[k].ok,
                blob |-> FALSE, files |-> <<>>]
  /\ UNCHANGED edits

-----------------------------------------------------------------------------
ParseSettle ==
  \E k \in 1..Len(inflight) :
    \/ \E ok \in BOOLEAN, body \in Bodies : ParseFetchResolve(k, [ok |-> ok, body |-> body])
    \/ ParseFetchReject(k)
    \/ ParseJsonSettle(k)

PdfSettle ==
  \E k \in 1..Len(inflight) :
    \/ \E ok \in BOOLEAN : PdfFetchResolve(k, ok)
    \/ PdfFetchReject(k)
    \/ PdfBlobResolve(k)
    \/ PdfBlobReject(k)

Next ==
  \/ \E text \in Prompts : SetPrompt(text)
  \/ \E type \in DocTypeOptions : SetDocType(type)
  \/ ClickParse
  \/ ClickPdf
  \/ \E idx \in 0..(Len(items) - 1), field \in Fields : \E value \in InputValues(field) : ItemInput(idx, field, value)
  \/ \E k \in 1..Len(inflight) : \E ok \in BOOLEAN, body \in Bodies : ParseFetchResolve(k, [ok |-> ok, body |-> body])
  \/ \E k \in 1..Len(inflight) : ParseFetchReject(k)
  \/ \E k \in 1..Len(inflight) : ParseJsonSettle(k)
  \/ \E k \in 1..Len(inflight) : \E ok \in BOOLEAN : PdfFetchResolve(k, ok)
  \/ \E k \in 1..Len(inflight) : PdfFetchReject(k)
  \/ \E k \in 1..Len(inflight) : PdfBlobResolve(k)
  \/ \E k \in 1..Len(inflight) : PdfBlobReject(k)

Spec == Init /\ [][Next]_vars

(* Every request sent is answered or fails: each await settles *)
LiveSpec == Spec /\ WF_vars(ParseSettle) /\ WF_vars(PdfSettle)

TypeOK ==
  /\ prompt \in Prompts
  /\ docType \in DocTypeOptions
  /\ loading \in BOOLEAN
  /\ error \in {NoError, ErrNoItems, ErrParse, ErrPdf}
  /\ edits \in 0..MaxEdits

-----------------------------------------------------------------------------
(* handleItemChange as a function of its arguments: called on every table *)
(* a parse can deliver, with indices inside and outside the table          *)

CallIndices == -1..2

(* handleItemChange(idx, field, value) returns normally for every idx:    *)
(* items.map visits the rows there are and throws for none                 *)
CallItemChange(idx, field, value) ==
  /\ edits < MaxEdits
  /\ Commit(handleItemChange(State, idx, field, value))
  /\ event' = [op |-> "callItemChange", idx |-> idx, field |-> field,
                value |-> value, outcome |-> "returned"]
  /\ edits' = edits + 1
  /\ UNCHANGED inflight

EditInit ==
  /\ prompt \in Prompts
  /\ docType = DOC_TYPES[1]
  /\ items \in ItemLists
  /\ loading = FALSE
  /\ error = NoError
  /\ inflight = <<>>
  /\ event = [op |-> "mount"]
  /\ edits = 0

EditNext ==
  \E idx \in CallIndices, field \in Fields :
    \E value \in InputValues(field) : CallItemChange(idx, field, value)

EditSpec == EditInit /\ [][EditNext]_vars

-----------------------------------------------------------------------------
(* Properties *)

ParseInFlight == \E k \in 1..Len(inflight) : inflight[k].op = "parse"

PdfInFlight == \E k \in 1..Len(inflight) : inflight[k].op = "pdf"

(* C1: whenever a parse is in flight with loading = true, a state with    *)
(* loading = false follows, given that each await of the request settles  *)
(* (checked under LiveSpec).                                               *)
C1_ParseClearsLoading == (ParseInFlight /\ loading) ~> ~loading

C1_Witness ==
  /\ event.op = "parseDone"
  /\ ~event.fetched
  /\ ~loading
  /\ inflight = <<>>

(* C2: whenever an export is in flight with loading = true, a state with  *)
(* loading = false follows, given that each await of the request settles  *)
(* (checked under LiveSpec).                                               *)
C2_PdfClearsLoading == (PdfInFlight /\ loading) ~> ~loading

C2_Witness ==
  /\ event.op = "pdfDone"
  /\ event.fetched /\ ~event.ok
  /\ ~loading
  /\ inflight = <<>>

(* C3: at most one request (parse or export) is outstanding in every      *)
(* reachable state, and a request is only ever started while loading is   *)
(* false and nothing is outstanding.                                       *)
C3_SingleInFlight ==
  /\ [](Len(inflight) <= 1)
  /\ [][Len(inflight') > Len(inflight) => (~loading /\ inflight = <<>>)]_vars

C3_Witness ==
  /\ Len(inflight) = 1
  /\ inflight[1].op = "pdf"
  /\ prompt # ""
  /\ event.op = "clickParse"
  /\ ~event.dispatched

(* C4: a click on Parse while the prompt is empty sends no request and    *)
(* leaves prompt, docType, items, loading and error as they were.          *)
C4_EmptyPromptNoOp ==
  [][(event'.op = "clickParse" /\ prompt = "")
       => (inflight' = inflight /\ UNCHANGED <<prompt, docType, items, loading, error>>)]_vars

C4_Witness ==
  /\ event.op = "clickParse"
  /\ ~event.dispatched
  /\ prompt = ""
  /\ ~loading

ParseFailed(e) == ~e.fetched \/ ~e.res.ok \/ e.res.body.json # "object"

(* C5: every failed parse (transport failure, non-success HTTP status     *)
(* whatever the body, or a malformed body) ends with the error            *)
(* "Error parsing prompt." and with items empty.                           *)
C5_FailedParseGenericError ==
  (event.op = "parseDone" /\ ParseFailed(event))
    => (error = ErrParse /\ items = <<>>)

(* C6: a parse response whose body carries items: [] ends with an empty   *)
(* table and no error; one whose body has no items key ends with          *)
(* "No items found." and an empty table.                                   *)
C6_EmptyListVersusMissing ==
  (event.op = "parseDone" /\ event.fetched /\ event.res.body.json = "object")
    => /\ event.res.body = ItemsBody(<<>>) => (items = <<>> /\ error = NoError)
       /\ event.res.body.itemsKey = "absent" => (items = <<>> /\ error = ErrNoItems)

C6_Witness ==
  /\ event.op = "parseDone"
  /\ event.fetched
  /\ event.res.body = ItemsBody(<<>>)
  /\ error = NoError
  /\ ~loading

PdfStep == event'.op \in {"clickPdf", "pdfResponse", "pdfDone"}

(* C7: no step of handleGeneratePDF (its start, the arrival of the        *)
(* response, its completion on success or failure) changes items,         *)
(* docType or prompt; it writes loading and error only.                    *)
C7_ExportFrame == [][PdfStep => UNCHANGED <<items, docType, prompt>>]_vars

C7_Witness ==
  /\ event.op = "pdfDone"
  /\ ~event.blob
  /\ error = ErrPdf
  /\ Len(items) = 2
  /\ items[2].name = Str("W")

PdfFailed(e) == ~e.fetched \/ ~e.ok \/ ~e.blob

(* C8: every failed export ends with "Error generating PDF." and delivers *)
(* no file; a file is delivered only for a success response.               *)
C8_FailedExport ==
  event.op = "pdfDone"
    => /\ PdfFailed(event) => (error = ErrPdf /\ event.files = <<>>)
       /\ event.files # <<>> => (event.fetched /\ event.ok)

C8_Witness ==
  /\ event.op = "pdfDone"
  /\ ~event.fetched
  /\ error = ErrPdf
  /\ event.files = <<>>

(* C9 as stated: the file of a successful export is named after the       *)
(* session's docType at the moment of delivery.                            *)
C9_NamedAfterCurrentDocType ==
  (event.op = "pdfDone" /\ ~PdfFailed(event)) => event.files = <<docType \o ".pdf">>

(* C9: a successful export delivers exactly one file, named <d>.pdf where *)
(* d is the docType the handler captured when the export was triggered.    *)
C9_NamedAfterCapturedDocType ==
  [][\A k \in 1..Len(inflight) :
       (event'.op = "pdfDone" /\ ~PdfFailed(event') /\ inflight' = Remove(inflight, k))
         => event'.files = <<inflight[k].docType \o ".pdf">>]_vars

C9_Witness ==
  /\ event.op = "pdfDone"
  /\ ~PdfFailed(event)
  /\ docType = "Devis"
  /\ event.files = <<"Facture.pdf">>

(* C10: an edit of field f of row i sets that field to the new value and  *)
(* changes nothing else: same length and order, every other row and every *)
(* other field identical, prompt, docType, loading and error unchanged.    *)
C10_EditFrame ==
  [][event'.op = "itemChange"
       => LET i == event'.idx + 1
              f == event'.field
          IN /\ Len(items') = Len(items)
             /\ items'[i][f] = event'.value
             /\ DOMAIN items'[i] = DOMAIN items[i] \cup {f}
             /\ \A g \in DOMAIN items[i] \ {f} : items'[i][g] = items[i][g]
             /\ \A j \in 1..Len(items) : j # i => items'[j] = items[j]
             /\ UNCHANGED <<prompt, docType, loading, error>>]_vars

C10_Witness ==
  /\ event.op = "itemChange"
  /\ event.idx = 1 /\ event.field = "unit_price"
  /\ items = <<ItemA, [ItemB EXCEPT !.unit_price = Str("3")]>>

ValidIndex(idx) == idx >= 0 /\ idx < Len(items)

C12_DocTypeInEnumeration ==
  /\ docType = DOC_TYPES[1]
  /\ Len(DOC_TYPES) = 4
  /\ [](\E k \in 1..4 : docType = DOC_TYPES[k])

C12_Witness ==
  /\ event.op = "setDocType"
  /\ docType = DOC_TYPES[4]
  /\ docType # DOC_TYPES[1]

(* C13: while a parse request is in flight, loading is true and items and *)
(* error are empty; the step that starts a parse leaves them so whatever   *)
(* they were before.                                                       *)
C13_ParseStartsClean ==
  /\ [](ParseInFlight => (loading /\ items = <<>> /\ error = NoError))
  /\ [][(event'.op = "clickParse" /\ event'.dispatched)
          => (loading' /\ items' = <<>> /\ error' = NoError)]_vars

C13_Witness ==
  /\ ParseInFlight
  /\ event.op = "clickParse"
  /\ edits > 0
  /\ items = <<>>

(* C14: right after a parse response whose body carries an items list L,  *)
(* items is exactly L, loading is false and there is no error.             *)
C14_ParseReplacesTable ==
  (event.op = "parseDone" /\ event.fetched /\ event.res.body.json = "object"
     /\ event.res.body.itemsKey = "array")
    => (items = event.res.body.list /\ ~loading /\ error = NoError)

C14_Witness ==
  /\ event.op = "parseDone"
  /\ event.fetched
  /\ event.res.body = ItemsBody(<<ItemA>>)
  /\ items = <<ItemA>>
  /\ edits = 2

(* C15: items is empty at session start, and in every reachable state in  *)
(* which the error shown is a parse error the table is empty.              *)
C15_NoRowsNextToParseError ==
  /\ items = <<>>
  /\ [](error \in {ErrParse, ErrNoItems} => items = <<>>)

C15_Witness ==
  /\ error = ErrNoItems
  /\ items = <<>>
  /\ edits > 0
  /\ ~loading

(* C16: loading = true together with a non-empty error is never reached:  *)
(* the session is Idle, Loading or Error, exactly one of them.             *)
C16_SingleStatus == ~(loading /\ error # NoError)

C16_Witness ==
  /\ loading
  /\ error = NoError
  /\ PdfInFlight
  /\ event.op = "clickPdf"
  /\ event.dispatched

Sent(req) == req.body

(* C17: the body of an export request is the item sequence and docType of *)
(* the session at the moment of the trigger: the same rows in the same     *)
(* order, every field that has a value (the empty string included) with    *)
(* exactly that value, fields without a value left out.                    *)
C17_ExportBodyIsSession ==
  [][(event'.op = "clickPdf" /\ event'.dispatched)
       => LET body == Sent(inflight'[Len(inflight')])
          IN /\ Len(inflight') = Len(inflight) + 1
             /\ body.docType = docType
             /\ Len(body.items) = Len(items)
             /\ \A i \in 1..Len(items) : \A f \in DOMAIN items[i] :
                  IF items[i][f] = Undefined
                    THEN f \notin DOMAIN body.items[i]
                    ELSE f \in DOMAIN body.items[i] /\ body.items[i][f] = items[i][f]]_vars

C17_Witness ==
  /\ event.op = "clickPdf"
  /\ event.dispatched
  /\ edits = 2
  /\ docType = "Bon de livraison"
  /\ Len(inflight) = 1
  /\ inflight[1].op = "pdf"
  /\ Len(Sent(inflight[1]).items) = 2
  /\ Sent(inflight[1]).docType = "Bon de livraison"
  /\ Sent(inflight[1]).items[1].reference = Str("")
  /\ Sent(inflight[1]).items[1].name = Str("W")
  /\ Sent(inflight[1]).items[2].quantity = Str("3")

NumericFields == {"quantity", "unit_price"}

(* C19: in every reachable state the quantity and the unit price of every *)
(* row are absent or a number.                                             *)
C19_NumericFieldsNumeric ==
  \A i \in 1..Len(items) : \A f \in NumericFields \cap DOMAIN items[i] :
    items[i][f].t \in {"undefined", "number"}

(* C20: the file of a successful export is named after the docType in the *)
(* body of that export's request, whatever the user did in between.        *)
C20_FileNamedAfterSentDocType ==
  [][\A k \in 1..Len(inflight) :
       (event'.op = "pdfDone" /\ event'.files # <<>> /\ inflight' = Remove(inflight, k))
         => event'.files = <<Sent(inflight[k]).docType \o ".pdf">>]_vars

C20_Witness ==
  /\ event.op = "pdfDone"
  /\ event.files = <<"Devis.pdf">>
  /\ docType = "Bon de commande"
  /\ edits > 0

====
